---- MODULE Spec2Model ----
(***************************************************************************)
(* Expense tracker bot (src/BotSpese/expense_bot.py): a text or a voice    *)
(* message is parsed into an expense (amount, payment method, category,    *)
(* short description) and written to the ledger database of the current   *)
(* month.                                                                  *)
(*                                                                         *)
(* Texts are sequences of one-character strings.  The module holds four    *)
(* specifications over the same variables:                                 *)
(*   Spec / FairSpec  the handlers, the event loop, the clock, the ledger  *)
(*   SpecPrice        get_price applied to bounded texts                   *)
(*   SpecLexicon      get_category / get_payment applied to bounded texts  *)
(*   SpecDesc         compact_desc applied to bounded texts and responses  *)
(***************************************************************************)
EXTENDS Integers, Sequences, FiniteSets, TLC

VARIABLES
    clock,      \* the wall clock: [y, m, d]
    ticks,      \* how many days the clock has advanced
    arrived,    \* updates received by the front end so far
    current,    \* the update whose handler holds the event loop, 0 when none
    pc,         \* per update: the position of its handler
    frame,      \* the locals of the handler in flight
    kind,       \* per update: "text" or "voice"
    utter,      \* per update: the text handed to ingest
    replies,    \* per update: the reply_text calls made
    record,     \* per update: the create-record request submitted
    staged,     \* per update: the temporary directory of the voice note
    nLookup,    \* per update: calls of current_db_id
    nSummar,    \* per update: calls of the summarization service
    err,        \* per update: the exception that left the handler
    txt,        \* pure-function specifications: the text under test
    resp,       \* SpecDesc: the content of the service's answer
    out         \* pure-function specifications: the result

pipeVars == << clock, ticks, arrived, current, pc, frame, kind, utter,
               replies, record, staged, nLookup, nSummar, err >>
pureVars == << txt, resp, out >>
vars == << clock, ticks, arrived, current, pc, frame, kind, utter,
           replies, record, staged, nLookup, nSummar, err, txt, resp, out >>

(***************************************************************************)
(* Bounds of the model.                                                    *)
(***************************************************************************)
NumUpdates == 2
MaxTicks == 1
MaxPriceFrags == 4
MaxLexFrags == 3
MaxDescFrags == 3

(***************************************************************************)
(* Characters and the str methods the code uses.                           *)
(***************************************************************************)
Digits == {"0", "1", "2", "3", "4", "5", "6", "7", "8", "9"}

DigitVal(c) ==
    CASE c = "0" -> 0 [] c = "1" -> 1 [] c = "2" -> 2 [] c = "3" -> 3
      [] c = "4" -> 4 [] c = "5" -> 5 [] c = "6" -> 6 [] c = "7" -> 7
      [] c = "8" -> 8 [] c = "9" -> 9

\* what the pattern class for white space and str.strip() take
Whitespace == {" ", "\t", "\n", "\r", "\f"}

\* string.punctuation, less the backquote, which a string of this module
\* cannot hold; no text of the model holds one
Punctuation ==
    {"!", "\"", "#", "$", "%", "&", "'", "(", ")", "*", "+", ",", "-", ".",
     "/", ":", ";", "<", "=", ">", "?", "@", "[", "\\", "]", "^", "_",
     "{", "|", "}", "~"}

UpperLetters ==
    << "A", "B", "C", "D", "E", "F", "G", "H", "I", "J", "K", "L", "M",
       "N", "O", "P", "Q", "R", "S", "T", "U", "V", "W", "X", "Y", "Z" >>
LowerLetters ==
    << "a", "b", "c", "d", "e", "f", "g", "h", "i", "j", "k", "l", "m",
       "n", "o", "p", "q", "r", "s", "t", "u", "v", "w", "x", "y", "z" >>

LowerChar(c) ==
    IF \E i \in 1..26 : UpperLetters[i] = c
    THEN LowerLetters[CHOOSE i \in 1..26 : UpperLetters[i] = c]
    ELSE c

UpperChar(c) ==
    IF \E i \in 1..26 : LowerLetters[i] = c
    THEN UpperLetters[CHOOSE i \in 1..26 : LowerLetters[i] = c]
    ELSE c

\* str.lower()
Lower(t) == [i \in 1..Len(t) |-> LowerChar(t[i])]

\* str.capitalize(): first character upper case, the rest lower case
Capitalize(t) ==
    [i \in 1..Len(t) |-> IF i = 1 THEN UpperChar(t[i]) ELSE LowerChar(t[i])]

\* str.replace(a, b) for single characters
Replace(t, a, b) == [i \in 1..Len(t) |-> IF t[i] = a THEN b ELSE t[i]]

\* str.strip(chars): drop the characters of cs from both ends
RECURSIVE LStrip(_, _)
LStrip(t, cs) ==
    IF t # <<>> /\ Head(t) \in cs THEN LStrip(Tail(t), cs) ELSE t

RECURSIVE RStrip(_, _)
RStrip(t, cs) ==
    IF t # <<>> /\ t[Len(t)] \in cs
    THEN RStrip(SubSeq(t, 1, Len(t) - 1), cs) ELSE t

Strip(t, cs) == RStrip(LStrip(t, cs), cs)

\* k in t
IsSubstr(k, t) ==
    \E i \in 0..(Len(t) - Len(k)) : SubSeq(t, i + 1, i + Len(k)) = k

(***************************************************************************)
(* The keyword tables, in declaration order (a dict iterates in insertion  *)
(* order).                                                                 *)
(***************************************************************************)
CATEGORY_KEYWORDS ==
  << << <<"s","u","p","e","r","m","e","r","c","a","t","o">>, "Cibo" >>,
     << <<"s","p","e","s","a">>, "Cibo" >>,
     << <<"b","a","r">>, "Cibo" >>,
     << <<"r","i","s","t","o","r","a","n","t","e">>, "Cibo" >>,
     << <<"l","a","t","t","e">>, "Cibo" >>,
     << <<"a","m","a","z","o","n">>, "Shopping" >>,
     << <<"s","c","a","r","p","e">>, "Shopping" >>,
     << <<"v","e","s","t","i","t","i">>, "Shopping" >>,
     << <<"c","i","n","e","m","a">>, "Divertimento" >>,
     << <<"c","o","n","c","e","r","t","o">>, "Divertimento" >>,
     << <<"b","i","g","l","i","e","t","t","o">>, "Divertimento" >>,
     << <<"p","a","l","e","s","t","r","a">>, "Sport e salute" >>,
     << <<"f","a","r","m","a","c","i","a">>, "Sport e salute" >>,
     << <<"t","r","e","n","o">>, "Trasporti" >>,
     << <<"t","a","x","i">>, "Trasporti" >>,
     << <<"b","e","n","z","i","n","a">>, "Trasporti" >>,
     << <<"h","o","t","e","l">>, "Viaggi" >>,
     << <<"v","o","l","o">>, "Viaggi" >> >>

PAYMENT_KEYWORDS ==
  << << <<"c","o","n","t","a","n","t","i">>, "Contanti" >>,
     << <<"c","a","s","h">>, "Contanti" >>,
     << <<"b","a","n","c","o","m","a","t">>, "Carta" >>,
     << <<"c","a","r","t","a">>, "Carta" >>,
     << <<"c","r","e","d","i","t","o">>, "Carta" >>,
     << <<"d","e","b","i","t","o">>, "Carta" >>,
     << <<"p","a","y","p","a","l">>, "Carta" >>,
     << <<"s","a","t","i","s","p","a","y">>, "Carta" >> >>

\* a classifier that forgets to lower-case the text
NextMatchCaseSensitive(table, t, default, i) ==
    IF \E j \in 1..Len(table) : IsSubstr(table[j][1], t)
    THEN table[CHOOSE j \in 1..Len(table) :
                 /\ IsSubstr(table[j][1], t)
                 /\ \A h \in 1..(j - 1) : ~IsSubstr(table[h][1], t)][2]
    ELSE default

\* next((v for k, v in table.items() if k in t.lower()), default)
RECURSIVE NextMatch(_, _, _, _)
NextMatch(table, t, default, i) ==
    IF i > Len(table) THEN default
    ELSE IF IsSubstr(table[i][1], Lower(t)) THEN table[i][2]
    ELSE NextMatch(table, t, default, i + 1)

get_category(t) == NextMatch(CATEGORY_KEYWORDS, t, "Altro", 1)

get_payment(t) == NextMatch(PAYMENT_KEYWORDS, t, "Carta", 1)

(***************************************************************************)
(* get_price.  PRICE_RE is a group of digits, an optional "." or ",", and  *)
(* more digits, followed by an optional white space and "€" or "eur" with  *)
(* an optional "o", ignoring case.  It is searched as the backtracking     *)
(* engine does: leftmost start, every quantifier greedy, giving back one   *)
(* step at a time.  A position is an index into the text; 0 stands for     *)
(* "no match".                                                             *)
(***************************************************************************)
CharAt(t, p) == IF p >= 1 /\ p <= Len(t) THEN t[p] ELSE ""

\* the length of the run of digits that starts at p
RECURSIVE DigitRun(_, _)
DigitRun(t, p) == IF CharAt(t, p) \in Digits THEN 1 + DigitRun(t, p + 1) ELSE 0

\* a marker that asks for the whole word "euro"
MarkerAtWholeWord(t, p) ==
    \/ CharAt(t, p) = "€"
    \/ /\ LowerChar(CharAt(t, p)) = "e"
       /\ LowerChar(CharAt(t, p + 1)) = "u"
       /\ LowerChar(CharAt(t, p + 2)) = "r"
       /\ LowerChar(CharAt(t, p + 3)) = "o"

\* the currency marker at p: "€", or "eur" and an optional "o", ignoring case
MarkerAt(t, p) ==
    \/ CharAt(t, p) = "€"
    \/ /\ LowerChar(CharAt(t, p)) = "e"
       /\ LowerChar(CharAt(t, p + 1)) = "u"
       /\ LowerChar(CharAt(t, p + 2)) = "r"

\* the optional white space and the currency marker at p
TailAt(t, p) ==
    \/ CharAt(t, p) \in Whitespace /\ MarkerAt(t, p + 1)
    \/ MarkerAt(t, p)

\* the digits after the separator, from p: first with n digits, then with fewer; the end of group 1
RECURSIVE TryFrac(_, _, _)
TryFrac(t, p, n) ==
    IF TailAt(t, p + n) THEN p + n
    ELSE IF n = 0 THEN 0
    ELSE TryFrac(t, p, n - 1)

\* the optional separator at p: first taken, then skipped
TrySep(t, p) ==
    LET taken == IF CharAt(t, p) \in {".", ","}
                 THEN TryFrac(t, p + 1, DigitRun(t, p + 1)) ELSE 0
    IN  IF taken # 0 THEN taken ELSE TryFrac(t, p, DigitRun(t, p))

\* the leading digits, from s: first with n digits, then with fewer
RECURSIVE TryInt(_, _, _)
TryInt(t, s, n) ==
    IF n = 0 THEN 0
    ELSE LET e == TrySep(t, s + n)
         IN  IF e # 0 THEN e ELSE TryInt(t, s, n - 1)

NoMatch == [start |-> 0, stop |-> 0]

\* PRICE_RE.search(t): the match at the leftmost start that has one;
\* group 1 is t[start .. stop - 1]
RECURSIVE SearchFrom(_, _)
SearchFrom(t, s) ==
    IF s > Len(t) THEN NoMatch
    ELSE LET e == TryInt(t, s, DigitRun(t, s))
         IN  IF e # 0 THEN [start |-> s, stop |-> e] ELSE SearchFrom(t, s + 1)

PRICE_RE_search(t) == SearchFrom(t, 1)

(***************************************************************************)
(* float(s) of digits, optionally a "." and more digits: the value, as its *)
(* whole part and the digits of its fraction without trailing zeros, so    *)
(* that "12.50", "12.5" and "012.5" are one value.                         *)
(***************************************************************************)
RECURSIVE IntVal(_)
IntVal(ds) ==
    IF ds = <<>> THEN 0
    ELSE 10 * IntVal(SubSeq(ds, 1, Len(ds) - 1)) + DigitVal(ds[Len(ds)])

Float(s) ==
    LET dot  == IF \E i \in 1..Len(s) : s[i] = "."
                THEN CHOOSE i \in 1..Len(s) : s[i] = "." ELSE Len(s) + 1
    IN  [whole |-> IntVal(SubSeq(s, 1, dot - 1)),
         frac  |-> RStrip(SubSeq(s, dot + 1, Len(s)), {"0"})]

None == [whole |-> -1, frac |-> <<>>]

get_price(t) ==
    LET m == PRICE_RE_search(t)
    IN  IF m # NoMatch
        THEN Float(Replace(SubSeq(t, m.start, m.stop - 1), ",", "."))
        ELSE None

(***************************************************************************)
(* compact_desc.  The answer of the summarization service is a record:     *)
(* kind "ok" with a content, "raise" (network, quota), "nochoices" (an     *)
(* answer without choices: IndexError) or "nocontent" (a content of None:  *)
(* AttributeError on .strip()).                                            *)
(***************************************************************************)
Spesa == <<"S","p","e","s","a">>

AnswerKinds == {"ok", "raise", "nochoices", "nocontent"}

\* the exception the body of the try block ends with, "none" when it returns
BodyException(response) ==
    CASE response.kind = "ok" -> "none"
      [] response.kind = "raise" -> "APIError"
      [] response.kind = "nochoices" -> "IndexError"
      [] response.kind = "nocontent" -> "AttributeError"

\* what "except Exception" catches
CaughtByExceptException == {"APIError", "IndexError", "AttributeError"}

\* the message sent to the service
Prompt(text) ==
    <<"Testo: \"">> \o Replace(text, "\n", " ")
                    \o <<"\". Oggetto acquistato (max 3 parole)?">>

\* compact_desc without the fallback on an empty description
compact_desc_nofallback(text, response) ==
    IF BodyException(response) = "none"
    THEN [raised |-> FALSE,
          value |-> Capitalize(Strip(Strip(response.content, Whitespace),
                                     Punctuation))]
    ELSE [raised |-> FALSE, value |-> Spesa]

compact_desc(text, response) ==
    IF BodyException(response) = "none"
    THEN LET desc == Strip(Strip(response.content, Whitespace), Punctuation)
         IN  [raised |-> FALSE,
              value |-> IF Capitalize(desc) # <<>> THEN Capitalize(desc)
                        ELSE Spesa]
    ELSE IF BodyException(response) \in CaughtByExceptException
    THEN [raised |-> FALSE, value |-> Spesa]
    ELSE [raised |-> TRUE, value |-> <<>>]

(***************************************************************************)
(* The clock, the partition table and current_db_id.                       *)
(***************************************************************************)
DaysIn(y, m) ==
    IF m \in {4, 6, 9, 11} THEN 30
    ELSE IF m = 2
    THEN (IF y % 4 = 0 /\ (y % 100 # 0 \/ y % 400 = 0) THEN 29 ELSE 28)
    ELSE 31

NextDay(c) ==
    IF c.d < DaysIn(c.y, c.m) THEN [c EXCEPT !.d = c.d + 1]
    ELSE IF c.m < 12 THEN [y |-> c.y, m |-> c.m + 1, d |-> 1]
    ELSE [y |-> c.y + 1, m |-> 1, d |-> 1]

Pad2(n) == IF n < 10 THEN "0" \o ToString(n) ELSE ToString(n)

\* strftime("%m-%Y")
MonthKey(y, m) == Pad2(m) \o "-" \o ToString(y)

\* date.isoformat()
IsoFormat(c) == ToString(c.y) \o "-" \o Pad2(c.m) \o "-" \o Pad2(c.d)

DB_IDS_BY_MONTH ==
    << << "07-2025", "22b2ddb994ba81dba631d8415085778b" >>,
       << "08-2025", "22b2ddb994ba807ca890d78a0f67387a" >>,
       << "09-2025", "22b2ddb994ba80838abec2185a953463" >> >>

\* dict.get(key) gives None for a key the table lacks; NoDb is that None
NoDb == ""

DictGet(table, key) ==
    IF \E i \in 1..Len(table) : table[i][1] = key
    THEN table[CHOOSE i \in 1..Len(table) : table[i][1] = key][2]
    ELSE NoDb

\* a router that falls back to the first partition of the table
current_db_id_fallback(clk) ==
    IF DictGet(DB_IDS_BY_MONTH, MonthKey(clk.y, clk.m)) # NoDb
    THEN DictGet(DB_IDS_BY_MONTH, MonthKey(clk.y, clk.m))
    ELSE DB_IDS_BY_MONTH[1][2]

current_db_id(clk) == DictGet(DB_IDS_BY_MONTH, MonthKey(clk.y, clk.m))

(***************************************************************************)
(* parse_text and the decisions of ingest and save_expense.                *)
(***************************************************************************)
\* a pipeline that asks for the description only once it has an amount
parse_text_lazy(t, response) ==
    [data  |-> [price |-> get_price(t),
                pay   |-> get_payment(t),
                cat   |-> get_category(t),
                desc  |-> IF get_price(t) = None THEN <<>>
                          ELSE compact_desc(t, response).value],
     raised |-> get_price(t) # None /\ compact_desc(t, response).raised,
     calls |-> IF get_price(t) = None THEN 0 ELSE 1]

\* data: the dictionary built; raised: whether an exception leaves
\* parse_text; calls: the requests made to the summarization service
\* while building it
parse_text(t, response) ==
    [data  |-> [price |-> get_price(t),
                pay   |-> get_payment(t),
                cat   |-> get_category(t),
                desc  |-> compact_desc(t, response).value],
     raised |-> compact_desc(t, response).raised,
     calls |-> 1]

\* an ingest that never takes the early return
PriceMissingNever(data) == FALSE

\* if data["price"] is None
PriceMissing(data) == data.price = None

\* a writer whose storage error is swallowed
AfterCreateSwallow(outcome) == "reply_ok"

\* where ingest goes once notion.pages.create has returned or raised
AfterCreate(outcome) == IF outcome = "ok" THEN "reply_ok" ELSE "failed"

\* the two fixed replies (their trailing emoji left out)
NotRecognized == "Importo non riconosciuto"
Recorded == "Spesa registrata"

(***************************************************************************)
(* The inputs of the handlers.                                             *)
(***************************************************************************)
Utterances ==
    { <<"1","2",".","5","0","€"," ","a","l"," ","b","a","r"," ","c","o","n"," ","c","a","r","t","a">>,
      <<"u","n"," ","c","a","f","f","è">>,
      <<"4","0"," ","e","u","r","o"," ","s","u","p","e","r","m","e","r","c","a","t","o"," ","c","o","n","t","a","n","t","i">> }

\* what the transcription service answers, before whisper strips it
Transcripts == { <<" ">> \o u \o <<"\n">> : u \in Utterances }

\* the answers of the summarization service the handlers are run with
Answers ==
    { [kind |-> "ok", content |-> <<" ","s","p","e","s","a","."," ">>],
      [kind |-> "raise", content |-> <<>>] }

\* the dates the clock may start at
InitDates ==
    { [y |-> 2025, m |-> 6, d |-> 30],
      [y |-> 2025, m |-> 7, d |-> 31],
      [y |-> 2025, m |-> 9, d |-> 30] }

Updates == 1..NumUpdates

NoText == <<"<none>">>
NoRecord == [partition |-> NoDb, date |-> "", name |-> <<>>, price |-> None,
             cat |-> "", pay |-> "", status |-> "none"]
NoFrame == [data |-> [price |-> None, pay |-> "", cat |-> "", desc |-> <<>>],
            db_id |-> NoDb]

Ended == {"done", "failed"}

\* parse_text over the handlers' inputs, computed once
Parsed == [u \in Utterances, a \in Answers |-> parse_text(u, a)]

\* whether get_price finds an amount, over the handlers' inputs
HasAmount == [u \in Utterances |-> get_price(u) # None]

(***************************************************************************)
(* The handlers.  main() builds the Application with its defaults, which   *)
(* process the updates one at a time, in the order they arrived: a handler *)
(* starts only when no other one is in flight.  The calls to ffmpeg, to    *)
(* the transcription and summarization services and to the ledger are      *)
(* synchronous; get_file, download_to_drive and reply_text are awaited.    *)
(* Each of them returns, raises or never returns.                          *)
(***************************************************************************)
PipeStart(c) ==
    /\ clock = c
    /\ ticks = 0
    /\ arrived = 0
    /\ current = 0
    /\ pc = [r \in Updates |-> "idle"]
    /\ frame = NoFrame
    /\ kind = [r \in Updates |-> "none"]
    /\ utter = [r \in Updates |-> NoText]
    /\ replies = [r \in Updates |-> <<>>]
    /\ record = [r \in Updates |-> NoRecord]
    /\ staged = [r \in Updates |-> "none"]
    /\ nLookup = [r \in Updates |-> 0]
    /\ nSummar = [r \in Updates |-> 0]
    /\ err = [r \in Updates |-> "none"]

PureIdle ==
    /\ txt = <<>>
    /\ resp = [kind |-> "ok", content |-> <<>>]
    /\ out = [ran |-> FALSE]

Init == (\E c \in InitDates : PipeStart(c)) /\ PureIdle

\* the handler of r is left, by return (p = "done") or by exception e
\* (p = "failed"); cleanup: the exit passes the finally block of handle_voice
Exit(r, p, e, cleanup) ==
    /\ pc' = [pc EXCEPT ![r] = p]
    /\ err' = [err EXCEPT ![r] = e]
    /\ current' = 0
    /\ frame' = NoFrame
    /\ staged' = IF cleanup /\ kind[r] = "voice"
                 THEN [staged EXCEPT ![r] = "released"] ELSE staged

\* the call named does not return: the handler of r stays where it is
Hang(r, call) ==
    /\ pc' = [pc EXCEPT ![r] = "hung"]
    /\ err' = [err EXCEPT ![r] = call]
    /\ UNCHANGED << current, frame, staged >>

\* the wall clock passes midnight
Tick ==
    /\ ticks < MaxTicks
    /\ ticks' = ticks + 1
    /\ clock' = NextDay(clock)
    /\ UNCHANGED << arrived, current, pc, frame, kind, utter, replies, record,
                    staged, nLookup, nSummar, err >>
    /\ UNCHANGED pureVars

\* the front end receives an update
Arrive ==
    /\ arrived < NumUpdates
    /\ arrived' = arrived + 1
    /\ pc' = [pc EXCEPT ![arrived + 1] = "queued"]
    /\ UNCHANGED << clock, ticks, current, frame, kind, utter, replies, record,
                    staged, nLookup, nSummar, err >>
    /\ UNCHANGED pureVars

\* r is the update the dispatcher takes next
IsNext(r) ==
    /\ current = 0
    /\ pc[r] = "queued"
    /\ \A q \in Updates : q < r => pc[q] # "queued"

\* handle_text: ingest(upd.message.text, upd) begins
HandleText(r, t) ==
    /\ IsNext(r)
    /\ current' = r
    /\ kind' = [kind EXCEPT ![r] = "text"]
    /\ utter' = [utter EXCEPT ![r] = t]
    /\ pc' = [pc EXCEPT ![r] = "parse"]
    /\ UNCHANGED << clock, ticks, arrived, frame, replies, record, staged,
                    nLookup, nSummar, err >>
    /\ UNCHANGED pureVars

\* handle_voice up to its first await: the temporary directory is made
HandleVoice(r) ==
    /\ IsNext(r)
    /\ current' = r
    /\ kind' = [kind EXCEPT ![r] = "voice"]
    /\ staged' = [staged EXCEPT ![r] = "held"]
    /\ pc' = [pc EXCEPT ![r] = "download"]
    /\ UNCHANGED << clock, ticks, arrived, frame, utter, replies, record,
                    nLookup, nSummar, err >>
    /\ UNCHANGED pureVars

\* get_file and download_to_drive, ahead of the try block
Download(r, outcome) ==
    /\ current = r /\ pc[r] = "download"
    /\ CASE outcome = "ok" ->
              /\ pc' = [pc EXCEPT ![r] = "whisper"]
              /\ UNCHANGED << err, current, frame, staged >>
         [] outcome = "raise" -> Exit(r, "failed", "download", FALSE)
         [] outcome = "hang" -> Hang(r, "download")
    /\ UNCHANGED << clock, ticks, arrived, kind, utter, replies, record,
                    nLookup, nSummar >>
    /\ UNCHANGED pureVars

\* whisper(ogg): to_mp3, then the transcription service, then strip()
Whisper(r, outcome, raw) ==
    /\ current = r /\ pc[r] = "whisper"
    /\ CASE outcome = "ok" ->
              /\ utter' = [utter EXCEPT ![r] = Strip(raw, Whitespace)]
              /\ pc' = [pc EXCEPT ![r] = "parse"]
              /\ UNCHANGED << err, current, frame, staged >>
         [] outcome = "ffmpeg" ->
              /\ Exit(r, "failed", "conversion", TRUE)
              /\ UNCHANGED utter
         [] outcome = "raise" ->
              /\ Exit(r, "failed", "transcription", TRUE)
              /\ UNCHANGED utter
         [] outcome = "hang" ->
              /\ Hang(r, "transcription")
              /\ UNCHANGED utter
    /\ UNCHANGED << clock, ticks, arrived, kind, replies, record,
                    nLookup, nSummar >>
    /\ UNCHANGED pureVars

\* ingest from parse_text to the partition lookup of save_expense
Ingest(r, response, outcome) ==
    /\ current = r /\ pc[r] = "parse"
    /\ LET parsed == Parsed[utter[r], response]
       IN  /\ nSummar' = [nSummar EXCEPT ![r] = @ + parsed.calls]
           /\ IF outcome = "hang"
              THEN /\ parsed.calls > 0
                   /\ Hang(r, "summarization")
                   /\ UNCHANGED nLookup
              ELSE IF parsed.raised
              THEN /\ Exit(r, "failed", "summarization", TRUE)
                   /\ UNCHANGED nLookup
              ELSE IF PriceMissing(parsed.data)
              THEN /\ pc' = [pc EXCEPT ![r] = "reply_nr"]
                   /\ frame' = [data |-> parsed.data, db_id |-> NoDb]
                   /\ UNCHANGED << err, current, staged, nLookup >>
              ELSE /\ nLookup' = [nLookup EXCEPT ![r] = @ + 1]
                   /\ IF current_db_id(clock) = NoDb
                      THEN Exit(r, "failed", "config", TRUE)
                      ELSE /\ pc' = [pc EXCEPT ![r] = "create"]
                           /\ frame' = [data |-> parsed.data,
                                        db_id |-> current_db_id(clock)]
                           /\ UNCHANGED << err, current, staged >>
    /\ UNCHANGED << clock, ticks, arrived, kind, utter, replies, record >>
    /\ UNCHANGED pureVars

\* save_expense from the building of the properties to the end of
\* notion.pages.create
Create(r, outcome) ==
    /\ current = r /\ pc[r] = "create"
    /\ record' = [record EXCEPT ![r] =
                    [partition |-> frame.db_id,
                     date      |-> IsoFormat(clock),
                     name      |-> frame.data.desc,
                     price     |-> frame.data.price,
                     cat       |-> frame.data.cat,
                     pay       |-> frame.data.pay,
                     status    |-> CASE outcome = "ok" -> "created"
                                     [] outcome = "raise" -> "error"
                                     [] outcome = "hang" -> "submitted"]]
    /\ IF outcome = "hang" THEN Hang(r, "storage")
       ELSE IF AfterCreate(outcome) = "failed"
       THEN Exit(r, "failed", "storage", TRUE)
       ELSE /\ pc' = [pc EXCEPT ![r] = AfterCreate(outcome)]
            /\ UNCHANGED << err, current, frame, staged >>
    /\ UNCHANGED << clock, ticks, arrived, kind, utter, replies,
                    nLookup, nSummar >>
    /\ UNCHANGED pureVars

\* reply_text, the last statement of either branch of ingest
Reply(r, outcome) ==
    /\ current = r /\ pc[r] \in {"reply_nr", "reply_ok"}
    /\ replies' = [replies EXCEPT ![r] =
                     Append(@, IF pc[r] = "reply_nr" THEN NotRecognized
                               ELSE Recorded)]
    /\ CASE outcome = "ok" -> Exit(r, "done", "none", TRUE)
         [] outcome = "raise" -> Exit(r, "failed", "reply", TRUE)
         [] outcome = "hang" -> Hang(r, "reply")
    /\ UNCHANGED << clock, ticks, arrived, kind, utter, record,
                    nLookup, nSummar >>
    /\ UNCHANGED pureVars

\* the garbage collector finalizes a TemporaryDirectory no handler holds
Finalize(r) ==
    /\ pc[r] \in Ended /\ staged[r] = "held"
    /\ staged' = [staged EXCEPT ![r] = "released"]
    /\ UNCHANGED << clock, ticks, arrived, current, pc, frame, kind, utter,
                    replies, record, nLookup, nSummar, err >>
    /\ UNCHANGED pureVars

\* every step of the handler of r
Handler(r) ==
    \/ \E t \in Utterances : HandleText(r, t)
    \/ HandleVoice(r)
    \/ \E o \in {"ok", "raise", "hang"} : Download(r, o)
    \/ \E o \in {"ok", "ffmpeg", "raise", "hang"} :
          \E raw \in Transcripts : Whisper(r, o, raw)
    \/ \E a \in Answers : \E o \in {"return", "hang"} : Ingest(r, a, o)
    \/ \E o \in {"ok", "raise", "hang"} : Create(r, o)
    \/ \E o \in {"ok", "raise", "hang"} : Reply(r, o)

Next ==
    \/ Tick
    \/ Arrive
    \/ \E r \in Updates : \E t \in Utterances : HandleText(r, t)
    \/ \E r \in Updates : HandleVoice(r)
    \/ \E r \in Updates : \E o \in {"ok", "raise", "hang"} : Download(r, o)
    \/ \E r \in Updates : \E o \in {"ok", "ffmpeg", "raise", "hang"} :
          \E raw \in Transcripts : Whisper(r, o, raw)
    \/ \E r \in Updates : \E a \in Answers : \E o \in {"return", "hang"} :
          Ingest(r, a, o)
    \/ \E r \in Updates : \E o \in {"ok", "raise", "hang"} : Create(r, o)
    \/ \E r \in Updates : \E o \in {"ok", "raise", "hang"} : Reply(r, o)
    \/ \E r \in Updates : Finalize(r)

Spec == Init /\ [][Next]_vars

\* a call that returns or raises does so in the end: the event loop runs
\* the handler in flight, and starts the next one once none is
FairSpec == Spec /\ \A r \in Updates : WF_vars(Handler(r))

(***************************************************************************)
(* The pure functions on bounded texts.  A text is a concatenation of at   *)
(* most n fragments.                                                       *)
(***************************************************************************)
RECURSIVE Concats(_, _)
Concats(F, n) ==
    IF n = 0 THEN { <<>> }
    ELSE Concats(F, n - 1) \cup { p \o f : p \in Concats(F, n - 1), f \in F }

PipeQuiet == PipeStart([y |-> 2025, m |-> 7, d |-> 31])

PriceFrags ==
    { <<"1">>, <<"0">>, <<".">>, <<",">>, <<" ">>, <<"\n">>, <<"€">>,
      <<"e","u","r">>, <<"E","u">>, <<"r","o">> }

InitPrice ==
    /\ PipeQuiet
    /\ txt \in Concats(PriceFrags, MaxPriceFrags)
    /\ resp = [kind |-> "ok", content |-> <<>>]
    /\ out = [ran |-> FALSE]

PriceApply ==
    /\ ~out.ran
    /\ out' = [ran |-> TRUE, val |-> get_price(txt)]
    /\ UNCHANGED << txt, resp >>
    /\ UNCHANGED pipeVars

NextPrice == PriceApply

SpecPrice == InitPrice /\ [][NextPrice]_vars

LexFrags ==
    { <<"b","a","r">>, <<"T","a","x","i">>, <<"s">>, <<"c","a","r","p","e">>,
      <<"c","a">>, <<"C","A","S","H">>, <<"c","a","r","t","a">>, <<" ">> }

InitLexicon ==
    /\ PipeQuiet
    /\ txt \in Concats(LexFrags, MaxLexFrags)
    /\ resp = [kind |-> "ok", content |-> <<>>]
    /\ out = [ran |-> FALSE]

LexiconApply ==
    /\ ~out.ran
    /\ out' = [ran |-> TRUE,
               val |-> [cat |-> get_category(txt), pay |-> get_payment(txt)]]
    /\ UNCHANGED << txt, resp >>
    /\ UNCHANGED pipeVars

NextLexicon == LexiconApply

SpecLexicon == InitLexicon /\ [][NextLexicon]_vars

DescTextFrags == { <<"a">>, <<"\n">> }

ContentFrags == { <<" ">>, <<".">>, <<"a">>, <<"B">>, <<"!">> }

InitDesc ==
    /\ PipeQuiet
    /\ txt \in Concats(DescTextFrags, MaxDescFrags)
    /\ resp \in { [kind |-> "ok", content |-> c] :
                    c \in Concats(ContentFrags, MaxDescFrags) }
                \cup { [kind |-> k, content |-> <<>>] :
                         k \in AnswerKinds \ {"ok"} }
    /\ out = [ran |-> FALSE]

DescApply ==
    /\ ~out.ran
    /\ out' = [ran |-> TRUE, val |-> compact_desc(txt, resp),
               prompt |-> Prompt(txt)]
    /\ UNCHANGED << txt, resp >>
    /\ UNCHANGED pipeVars

NextDesc == DescApply

SpecDesc == InitDesc /\ [][NextDesc]_vars

(***************************************************************************)
(* Properties of the handlers (Spec, FairSpec).                            *)
(***************************************************************************)
Ingested(r) == utter[r] # NoText

RepliesOf(r) == { replies[r][i] : i \in 1..Len(replies[r]) }

\* C1: an ingestion whose utterance yields no amount never looks up a
\* partition and never submits a create-record request, and when its run
\* ends, the one reply made is "amount not recognized".
C1_NoAmountNoLedger ==
    \A r \in Updates :
        (Ingested(r) /\ ~HasAmount[utter[r]]) =>
            /\ nLookup[r] = 0
            /\ record[r] = NoRecord
            /\ RepliesOf(r) \subseteq {NotRecognized}
            /\ pc[r] \in Ended => replies[r] = << NotRecognized >>

C1_Witness ==
    \E r \in Updates :
        /\ Ingested(r) /\ ~HasAmount[utter[r]]
        /\ kind[r] = "voice"
        /\ pc[r] = "done"
        /\ replies[r] = << NotRecognized >>

\* the Ledger Writer of r raised: no partition for the month, or an error
\* of the storage backend
WriterRaised(r) == err[r] = "config" \/ record[r].status = "error"

\* C2: an ingestion replies at most once, with one of the two fixed texts;
\* "recorded" is replied only once the create-record call has returned
\* successfully; when the Ledger Writer raises, the handler ends with that
\* error and no reply is made.
C2_OneReplyAfterWrite ==
    \A r \in Updates :
        /\ Len(replies[r]) <= 1
        /\ RepliesOf(r) \subseteq {NotRecognized, Recorded}
        /\ Recorded \in RepliesOf(r) => record[r].status = "created"
        /\ WriterRaised(r) =>
              /\ pc[r] = "failed"
              /\ err[r] \in {"config", "storage"}
              /\ replies[r] = <<>>

C2_Witness ==
    \E r, q \in Updates :
        /\ pc[r] = "done" /\ replies[r] = << Recorded >>
        /\ record[r].status = "created"
        /\ pc[q] = "failed" /\ record[q].status = "error"

\* the partition table has no entry for the month of the clock
MonthMissing ==
    \A i \in 1..Len(DB_IDS_BY_MONTH) :
        DB_IDS_BY_MONTH[i][1] # MonthKey(clock.y, clock.m)

\* C3: when ingest gets past parsing an utterance with an amount in a
\* month the partition table lacks, the handler ends with the
\* configuration error and no create-record request is submitted, then or
\* later.
C3_MissingMonthFailsClosed ==
    [][\A r \in Updates :
          /\ ( /\ pc[r] = "parse" /\ pc'[r] \notin {"parse", "hung"}
               /\ HasAmount[utter[r]]
               /\ MonthMissing )
             => ( /\ pc'[r] = "failed" /\ err'[r] = "config"
                  /\ record'[r] = NoRecord /\ replies'[r] = <<>> )
          /\ err[r] = "config"
             => ( /\ pc'[r] = "failed" /\ err'[r] = "config"
                  /\ record'[r] = NoRecord /\ replies'[r] = <<>> )]_vars

C3_Witness ==
    \E r \in Updates :
        /\ Ingested(r) /\ HasAmount[utter[r]]
        /\ MonthMissing
        /\ pc[r] = "failed" /\ err[r] = "config"
        /\ nLookup[r] = 1 /\ record[r] = NoRecord

\* C4, as stated: for an utterance without an amount the summarization
\* service is never called.
C4_NoSummarizationWithoutAmount ==
    \A r \in Updates :
        (Ingested(r) /\ ~HasAmount[utter[r]]) => nSummar[r] = 0

\* C4, amended: the amount is checked once parse_text has built the whole
\* candidate: an ingestion past parsing has called the summarization
\* service exactly once, also when the amount is absent; the absent amount
\* short-circuits what follows: no partition lookup, no create-record
\* request.
C4_SummarizedThenShortCircuit ==
    \A r \in Updates :
        /\ nSummar[r] <= 1
        /\ (Ingested(r) /\ pc[r] # "parse") => nSummar[r] = 1
        /\ (Ingested(r) /\ ~HasAmount[utter[r]]) =>
              nLookup[r] = 0 /\ record[r] = NoRecord

C4_Witness ==
    \E r \in Updates :
        /\ Ingested(r) /\ ~HasAmount[utter[r]]
        /\ pc[r] = "done"
        /\ nSummar[r] = 1 /\ nLookup[r] = 0

\* C5: no run of handle_voice ends with its temporary directory still held.
C5_ReleasedOnEveryExit ==
    \A r \in Updates : pc[r] \in Ended => staged[r] # "held"

\* C7: while an external call of one update hangs, every other update that
\* has arrived still runs to its own outcome.
C7_HangBlocksOnlyItsUpdate ==
    \A r, q \in Updates :
        (pc[r] = "hung" /\ pc[q] = "queued") ~> (pc[q] \in Ended \cup {"hung"})

\* C10: every create-record request carries a date whose month and year
\* are the key of the partition it is submitted to.
C10_DateInPartitionMonth ==
    \A r \in Updates :
        record[r] # NoRecord =>
            \E y \in 2025..2026 : \E m \in 1..12 : \E d \in 1..31 :
                /\ record[r].date = IsoFormat([y |-> y, m |-> m, d |-> d])
                /\ record[r].partition
                     = DictGet(DB_IDS_BY_MONTH, MonthKey(y, m))

(***************************************************************************)
(* Properties of get_price (SpecPrice).                                    *)
(***************************************************************************)
\* t[i .. j-1] is digits, then nothing or a separator and digits or none
NumberText(t, i, j) ==
    \E a \in (i + 1)..j :
        /\ \A p \in i..(a - 1) : t[p] \in Digits
        /\ \/ a = j
           \/ /\ t[a] \in {".", ","}
              /\ \A p \in (a + 1)..(j - 1) : t[p] \in Digits

\* the word w, in any case, stands at p
WordAt(t, p, w) ==
    /\ p + Len(w) - 1 <= Len(t)
    /\ \A q \in 1..Len(w) : LowerChar(t[p + q - 1]) = w[q]

\* a marker stands at j, or after one gap character at j
Followed(t, j, gaps, markers) ==
    \E w \in markers :
        \/ WordAt(t, j, w)
        \/ j <= Len(t) /\ t[j] \in gaps /\ WordAt(t, j + 1, w)

Occurrences(t, gaps, markers) ==
    { o \in (1..Len(t)) \X (2..(Len(t) + 1)) :
        /\ o[1] < o[2]
        /\ NumberText(t, o[1], o[2])
        /\ Followed(t, o[2], gaps, markers) }

\* the value of the first number followed by a marker, None without one
FirstAmount(t, gaps, markers) ==
    LET occ == Occurrences(t, gaps, markers)
    IN  IF occ = {} THEN None
        ELSE LET o == CHOOSE x \in occ :
                        \A z \in occ :
                            x[1] < z[1] \/ (x[1] = z[1] /\ x[2] >= z[2])
             IN  Float(Replace(SubSeq(t, o[1], o[2] - 1), ",", "."))

\* C9, as stated: the markers are "€", "euro" and "euros", the gap is at
\* most one space.
C9_FirstAmountEuroWord ==
    out.ran =>
        out.val = FirstAmount(txt, {" "},
                              { <<"€">>, <<"e","u","r","o">>,
                                <<"e","u","r","o","s">> })

\* C9, amended: the marker is "€" or the letters "eur" in any case (so
\* also "euro" and "euros"), the gap is at most one white-space character
\* (space, tab, line break); get_price returns the first such number with
\* its separator normalized to ".", and None for a text without one.
C9_FirstAmountEurPrefix ==
    out.ran =>
        out.val = FirstAmount(txt, Whitespace, { <<"€">>, <<"e","u","r">> })

C9_Witness ==
    /\ out.ran
    /\ out.val # None
    /\ \E x, z \in Occurrences(txt, Whitespace, { <<"€">>, <<"e","u","r">> }) :
          /\ x[2] < z[1]
          /\ Float(Replace(SubSeq(txt, x[1], x[2] - 1), ",", "."))
               # Float(Replace(SubSeq(txt, z[1], z[2] - 1), ",", "."))
          /\ out.val = Float(Replace(SubSeq(txt, x[1], x[2] - 1), ",", "."))

(***************************************************************************)
(* Properties of get_category and get_payment (SpecLexicon).               *)
(***************************************************************************)
\* the first position at which k stands in t, 0 when it stands nowhere
FirstPos(k, t) ==
    LET at == { p \in 1..Len(t) :
                  /\ p + Len(k) - 1 <= Len(t)
                  /\ \A q \in 1..Len(k) : t[p + q - 1] = k[q] }
    IN  IF at = {} THEN 0 ELSE CHOOSE p \in at : \A q \in at : p <= q

\* the label of the first keyword of the table, in declaration order,
\* that occurs in the lower-cased text; the default when none does
FirstInTable(table, t, default) ==
    LET hits == { i \in 1..Len(table) : FirstPos(table[i][1], Lower(t)) # 0 }
    IN  IF hits = {} THEN default
        ELSE table[CHOOSE i \in hits : \A j \in hits : i <= j][2]

\* C8: get_category and get_payment return the default label when no
\* keyword of their table occurs in the lower-cased text, and otherwise the
\* label of the first keyword in table order that occurs in it, wherever
\* in the text the keywords stand.
C8_FirstKeywordInTableOrder ==
    out.ran =>
        /\ out.val.cat = FirstInTable(CATEGORY_KEYWORDS, txt, "Altro")
        /\ out.val.pay = FirstInTable(PAYMENT_KEYWORDS, txt, "Carta")

\* a keyword later in the table stands earlier in the text, inside a
\* longer word, and one earlier in the table decides
C8_Witness ==
    /\ out.ran
    /\ \E i, j \in 1..Len(CATEGORY_KEYWORDS) :
          /\ i < j
          /\ CATEGORY_KEYWORDS[i][2] # CATEGORY_KEYWORDS[j][2]
          /\ FirstPos(CATEGORY_KEYWORDS[i][1], Lower(txt)) # 0
          /\ FirstPos(CATEGORY_KEYWORDS[j][1], Lower(txt)) # 0
          /\ FirstPos(CATEGORY_KEYWORDS[j][1], Lower(txt))
               < FirstPos(CATEGORY_KEYWORDS[i][1], Lower(txt))
          /\ txt # Lower(txt)
          /\ out.val.cat = CATEGORY_KEYWORDS[i][2]
    /\ out.val.pay = "Contanti"

(***************************************************************************)
(* Properties of compact_desc (SpecDesc).                                  *)
(***************************************************************************)
\* white space, then punctuation, then white space, any of them empty
Blank(c) ==
    \E i \in 0..Len(c) : \E j \in i..Len(c) :
        /\ \A p \in 1..i : c[p] \in Whitespace
        /\ \A p \in (i + 1)..j : c[p] \in Punctuation
        /\ \A p \in (j + 1)..Len(c) : c[p] \in Whitespace

====
